---- MODULE Spec2Model ----
(***************************************************************************)
(* Model of pywhistle.client.Client: an asynchronous facade over the       *)
(* Whistle REST API.  The facade holds a config and a bearer token, both   *)
(* unset after construction; async_init stores the config and logs in when *)
(* no token is cached; every resource method is one authenticated GET.     *)
(*                                                                         *)
(* Python values are tagged records [t |-> type, v |-> value].  A Python   *)
(* str is a sequence of text chunks, so that "%s" formatting is sequence   *)
(* concatenation.  A dict is a function from keys to values.               *)
(***************************************************************************)
EXTENDS Integers, Sequences, FiniteSets, Bags, TLC

VARIABLES _config, _token, _username, _password, utcoffset, pending, inflight,
          call, initOk, completed, settled, overlapped

vars == <<_config, _token, _username, _password, utcoffset, pending, inflight,
          call, initOk, completed, settled, overlapped>>

\* ------------------------------------------------------------------ bounds
\* the number of calls that may be suspended at an await at the same time
NumTasks == 2

\* ------------------------------------------------------------ Python values
None == [t |-> "NoneType", v |-> <<"None">>]
PyStr(chunks) == [t |-> "str", v |-> chunks]
PyInt(n) == [t |-> "int", v |-> n]
PyDict(f) == [t |-> "dict", v |-> f]
PyList(s) == [t |-> "list", v |-> s]
PyDatetime(y, m, d, h) == [t |-> "datetime", v |-> [year |-> y, month |-> m, day |-> d, hour |-> h]]
EmptyDict == [k \in {} |-> None]

DigitChars == <<"0", "1", "2", "3", "4", "5", "6", "7", "8", "9">>

RECURSIVE IntChunks(_)
\* decimal digits of a natural number, one chunk per digit
IntChunks(n) == IF n < 10 THEN <<DigitChars[n + 1]>>
                ELSE IntChunks(n \div 10) \o <<DigitChars[(n % 10) + 1]>>

RECURSIVE ZeroPad(_, _)
\* left-pad a digit sequence with "0" up to the given width
ZeroPad(chunks, width) == IF Len(chunks) >= width THEN chunks
                          ELSE ZeroPad(<<"0">> \o chunks, width)

\* "%s" % x : the text of a value
Str(x) == IF x.t = "str" THEN x.v
          ELSE IF x.t = "int" THEN IntChunks(x.v)
          ELSE <<"None">>

\* bool(x) for the values the client tests: None and empty containers are false
Truthy(x) == IF x = None THEN FALSE
             ELSE IF DOMAIN x = {} THEN FALSE
             ELSE IF DOMAIN x # {"t", "v"} THEN TRUE
             ELSE IF x.t = "int" THEN x.v # 0
             ELSE IF x.t = "str" THEN x.v # <<>>
             ELSE TRUE

\* ------------------------------------------------------------------ config
WHISTLE_CONST == [proto |-> "https", remote_host |-> "app.whistle.com", endpoint |-> "api"]
TEST_CONST == [proto |-> "http", remote_host |-> "localhost:8080", endpoint |-> "v1"]
Configs == {WHISTLE_CONST, TEST_CONST}

\* ------------------------------------------------------------------- dates
\* '%Y-%m-%d': %m and %d are two digits, %Y is the year as it is, without
\* padding, so a year below 1000 has fewer than four digits
DATEFORMAT_YYYYMMDD(dt) ==
    IntChunks(dt.v.year) \o <<"-">> \o
    ZeroPad(IntChunks(dt.v.month), 2) \o <<"-">> \o
    ZeroPad(IntChunks(dt.v.day), 2)

\* dt.strftime('%Y-%m-%d')
strftime(dt) == PyStr(DATEFORMAT_YYYYMMDD(dt))

\* proleptic Gregorian date of a day number counted from 1970-01-01
civil_from_days(days) ==
    LET z == days + 719468
        era == z \div 146097
        doe == z - era * 146097
        yoe == (doe - (doe \div 1460) + (doe \div 36524) - (doe \div 146096)) \div 365
        doy == doe - (365 * yoe + (yoe \div 4) - (yoe \div 100))
        mp == (5 * doy + 2) \div 153
        d == doy - ((153 * mp + 2) \div 5) + 1
        m == IF mp < 10 THEN mp + 3 ELSE mp - 9
        y == yoe + era * 400 + (IF m <= 2 THEN 1 ELSE 0)
    IN [year |-> y, month |-> m, day |-> d]

\* datetime.datetime.fromtimestamp(ts): the LOCAL time of a POSIX timestamp,
\* for a local zone that is offset hours east of UTC
fromtimestamp(ts, offset) ==
    LET local == ts + offset * 3600
        ymd == civil_from_days(local \div 86400)
    IN PyDatetime(ymd.year, ymd.month, ymd.day, (local % 86400) \div 3600)

\* ------------------------------------------------------ results of a call
Return(value) == [kind |-> "return", value |-> value, error |-> "", status |-> 0]
Raise(error, status) == [kind |-> "raise", value |-> None, error |-> error, status |-> status]
\* the call is suspended at "async with self._websession.request(...)"
Awaiting == [kind |-> "await", value |-> None, error |-> "", status |-> 0]

\* --------------------------------------------------- the mocked HTTP server
TransportError == [kind |-> "transport_error", status |-> 0, body |-> None]
\* the place of the response while the request is still unanswered
NoResponse == [kind |-> "none", status |-> 0, body |-> None]
HttpResponse(status, body) == [kind |-> "http", status |-> status, body |-> body]
NotJson == [t |-> "notjson", v |-> <<"<html>">>]
Pets == PyList(<<PyDict([id |-> PyInt(1), name |-> PyStr(<<"Rex">>)])>>)
Tokens == {PyStr(<<"tok123">>), PyStr(<<"tokABC">>)}
OkStatuses == {200}
ErrorStatuses == {404}
Bodies == {NotJson, PyDict([message |-> PyStr(<<"hi">>)]), Pets}
ErrorBody == PyDict([message |-> PyStr(<<"error">>)])
Responses == {TransportError, HttpResponse(300, Pets)}
             \cup {HttpResponse(s, ErrorBody) : s \in ErrorStatuses}
             \cup {HttpResponse(s, b) : s \in OkStatuses, b \in Bodies}
\* what the server may answer to POST login: the above, or a token
LoginResponses == Responses
                  \cup {HttpResponse(s, PyDict([auth_token |-> tok])) :
                           s \in OkStatuses, tok \in Tokens}

\* ----------------------------------------------------------- pure helpers
url(config, resource) ==
    <<config.proto, "://", config.remote_host, "/", config.endpoint, "/">> \o resource

\* headers with the token sent bare, without the Bearer scheme
headers_bare(config, token) ==
    [Host |-> <<config.remote_host>>,
     ContentType |-> <<"application/json">>,
     Connection |-> <<"keep-alive">>,
     Accept |-> <<"application/vnd.whistle.com.v4+json">>,
     AcceptLanguage |-> <<"en-us">>,
     AcceptEncoding |-> <<"br, gzip, deflate">>,
     UserAgent |-> <<"Winston/2.5.3 (iPhone; iOS 12.0.1; Build:1276; Scale/2.0)">>,
     Authorization |-> Str(token)]

headers(config, token) ==
    [Host |-> <<config.remote_host>>,
     ContentType |-> <<"application/json">>,
     Connection |-> <<"keep-alive">>,
     Accept |-> <<"application/vnd.whistle.com.v4+json">>,
     AcceptLanguage |-> <<"en-us">>,
     AcceptEncoding |-> <<"br, gzip, deflate">>,
     UserAgent |-> <<"Winston/2.5.3 (iPhone; iOS 12.0.1; Build:1276; Scale/2.0)">>,
     Authorization |-> <<"Bearer ">> \o Str(token)]

\* raise_for_status that lets client errors through
raise_for_status_5xx(status) == 500 <= status

\* r.raise_for_status(): raises for a client or server error status
raise_for_status(status) == 400 <= status

\* the filter written with "if v" in place of "if v is not None"
filter_params_truthy(params) ==
    IF Truthy(params)
    THEN [k \in {j \in DOMAIN params : Truthy(params[j])} |-> params[k]]
    ELSE EmptyDict

\* dict((k, v) for k, v in params.items() if v is not None) if params else {}
filter_params(params) ==
    IF Truthy(params)
    THEN [k \in {j \in DOMAIN params : params[j] # None} |-> params[k]]
    ELSE EmptyDict

\* what the response context manager yields to request: raise_for_status, then
\* r.json(); until the server has answered, the call stays suspended
response(resp) ==
    IF resp.kind = "none" THEN Awaiting
    ELSE IF resp.kind = "transport_error" THEN Raise("ClientConnectionError", 0)
    ELSE IF raise_for_status(resp.status) THEN Raise("ClientResponseError", resp.status)
    ELSE IF resp.body.t = "notjson" THEN Raise("JSONDecodeError", 0)
    ELSE Return(resp.body)

\* request that puts the request on the session twice
request_twice(config, method, resource, hdrs, data, params, resp) ==
    LET h == IF Truthy(hdrs) THEN hdrs ELSE EmptyDict
        p == filter_params(params)
        req == [method |-> method, url |-> url(config, resource),
                headers |-> h, data |-> data, params |-> p]
    IN [requests |-> IF resp.kind = "none" THEN <<req, req>> ELSE <<>>,
        outcome |-> response(resp)]

\* Client.request in its two steps.  Called (resp is NoResponse): the request
\* is put on the web session and the call is suspended.  Resumed by the
\* answer resp: no request is made, the result of the call is that of resp
request(config, method, resource, hdrs, data, params, resp) ==
    LET h == IF Truthy(hdrs) THEN hdrs ELSE EmptyDict
        p == filter_params(params)
        req == [method |-> method, url |-> url(config, resource),
                headers |-> h, data |-> data, params |-> p]
    IN [requests |-> IF resp.kind = "none" THEN <<req>> ELSE <<>>,
        outcome |-> response(resp)]

\* Client.get_resource; headers(config, token) subscripts config before any
\* request is made, which raises TypeError when config is None
get_resource(config, token, resource, params, resp) ==
    IF config = None
    THEN [requests |-> <<>>, outcome |-> Raise("TypeError", 0)]
    ELSE request(config, "get", resource, headers(config, token), None, params, resp)

\* Client.login: POST login, then subscript the JSON payload with 'auth_token'
login(config, username, password, resp) ==
    LET r == request(config, "post", <<"login">>, None,
                     [email |-> username, password |-> password], None, resp)
        json == r.outcome.value
    IN IF r.outcome.kind # "return" THEN r
       ELSE IF json.t # "dict"
            THEN [requests |-> r.requests, outcome |-> Raise("TypeError", 0)]
       ELSE IF "auth_token" \notin DOMAIN json.v
            THEN [requests |-> r.requests, outcome |-> Raise("KeyError", 0)]
       ELSE [requests |-> r.requests, outcome |-> Return(json.v["auth_token"])]

\* ------------------------------------------------------- resource methods
get_pets(config, token, resp) ==
    get_resource(config, token, <<"pets">>, None, resp)

get_owners(config, token, pet_id, resp) ==
    get_resource(config, token, <<"pets/">> \o Str(pet_id) \o <<"/owners">>, None, resp)

get_places(config, token, resp) ==
    get_resource(config, token, <<"places">>, None, resp)

get_stats(config, token, pet_id, resp) ==
    get_resource(config, token, <<"pets/">> \o Str(pet_id) \o <<"/stats">>, None, resp)

get_timeline(config, token, pet_id, resp) ==
    get_resource(config, token, <<"pets/">> \o Str(pet_id) \o <<"/timelines/location">>, None, resp)

\* now is the reading of datetime.datetime.now(), offset the local UTC offset
get_dailies(config, token, pet_id, start_date, end_date, now, offset, resp) ==
    LET onlyStart == Truthy(start_date) /\ ~Truthy(end_date)
        onlyEnd == ~onlyStart /\ Truthy(end_date) /\ ~Truthy(start_date)
        end1 == IF onlyStart THEN now ELSE end_date
        start1 == IF onlyEnd THEN fromtimestamp(0, offset) ELSE start_date
        s == IF Truthy(start1) THEN strftime(start1) ELSE None
        e == IF Truthy(end1) THEN strftime(end1) ELSE None
    IN get_resource(config, token, <<"pets/">> \o Str(pet_id) \o <<"/dailies">>,
                    [start_date |-> s, end_date |-> e], resp)

get_dailies_day(config, token, pet_id, day_id, resp) ==
    get_resource(config, token,
                 <<"pets/">> \o Str(pet_id) \o <<"/dailies/">> \o Str(day_id), None, resp)

get_achievements(config, token, pet_id, resp) ==
    get_resource(config, token, <<"pets/">> \o Str(pet_id) \o <<"/achievements">>, None, resp)

\* -------------------------------------------------------------- async_init
\* async_init that logs in whether or not a token is cached
async_init_check_always(token) == TRUE

\* if self._token is None
async_init_check(token) == token = None

\* the store with a default: an empty token is stored when login fails
async_init_store_default(token, r) ==
    IF r.outcome.kind = "return" THEN r.outcome.value ELSE PyStr(<<>>)

\* the store guarded by a second test of the token after the await
async_init_store_guarded(token, r) ==
    IF r.outcome.kind = "return" /\ token = None THEN r.outcome.value ELSE token

\* self._token = await self.login(...): the assignment runs only if login returns
async_init_store(token, r) ==
    IF r.outcome.kind = "return" THEN r.outcome.value ELSE token

\* ------------------------------------------------------------ input sets
PetIds == {PyInt(42)}
DayIds == {PyInt(3)}
\* the dates a caller gives, or None for a date left out
StartDates == {None, PyDatetime(999, 1, 1, 0)}
EndDates == {None, PyDatetime(1999, 12, 31, 23)}
NowReadings == {PyDatetime(2024, 3, 5, 14)}
UtcOffsets == {-5, 9}
ParamKeys == {"a", "b"}
ParamValues == {None, PyInt(0), PyStr(<<>>), PyStr(<<"x">>)}
ParamMaps == {None} \cup UNION {[ks -> ParamValues] : ks \in SUBSET ParamKeys}
ResourceOps == {"get_pets", "get_owners", "get_places", "get_stats", "get_timeline",
                "get_dailies", "get_dailies_day", "get_achievements"}
NoArgs == [k \in {} |-> None]

\* ------------------------------------------------------------------- state
\* Client.__init__.  utcoffset is the local zone of the process; pending the
\* bag of the configs of the async_init calls suspended at their login;
\* inflight the bag of the calls of the other methods suspended at their
\* request; call the last step of a call: the requests it put on the session
\* and what it gave its caller;
\* completed the tokens of the logins that returned, in the order they
\* returned; settled the tokens of the logins that returned while no other
\* async_init was suspended; overlapped whether two async_init calls have
\* been suspended at the same time
Init ==
    /\ _config = None
    /\ _token = None
    /\ _username = PyStr(<<"a@b.com">>)
    /\ _password = PyStr(<<"pw">>)
    /\ utcoffset \in UtcOffsets
    /\ pending = EmptyBag
    /\ inflight = EmptyBag
    /\ call = [op |-> "__init__", args |-> NoArgs, resp |-> NoResponse,
               requests |-> <<>>, outcome |-> Return(None)]
    /\ initOk = FALSE
    /\ completed = <<>>
    /\ settled = {}
    /\ overlapped = FALSE

Idle == pending = EmptyBag /\ inflight = EmptyBag

\* one more call may be suspended
CanSuspend == BagCardinality(pending) + BagCardinality(inflight) < NumTasks

\* everything a resource method leaves alone: it reads _config and _token
\* when it is called, before its await, and writes nothing
facade == <<_config, _token, _username, _password, utcoffset, pending,
            initOk, completed, settled, overlapped>>

GetPets ==
    LET r == get_pets(_config, _token, NoResponse)
    IN /\ call' = [op |-> "get_pets", args |-> NoArgs, resp |-> NoResponse,
                   requests |-> r.requests, outcome |-> r.outcome]
       /\ IF r.outcome.kind = "await"
          THEN /\ CanSuspend
               /\ inflight' = inflight (+) SetToBag({"get_pets"})
          ELSE UNCHANGED inflight
       /\ UNCHANGED facade

GetOwners == \E pet_id \in PetIds :
    LET r == get_owners(_config, _token, pet_id, NoResponse)
    IN /\ call' = [op |-> "get_owners", args |-> [pet_id |-> pet_id], resp |-> NoResponse,
                   requests |-> r.requests, outcome |-> r.outcome]
       /\ IF r.outcome.kind = "await"
          THEN /\ CanSuspend
               /\ inflight' = inflight (+) SetToBag({"get_owners"})
          ELSE UNCHANGED inflight
       /\ UNCHANGED facade

GetPlaces ==
    LET r == get_places(_config, _token, NoResponse)
    IN /\ call' = [op |-> "get_places", args |-> NoArgs, resp |-> NoResponse,
                   requests |-> r.requests, outcome |-> r.outcome]
       /\ IF r.outcome.kind = "await"
          THEN /\ CanSuspend
               /\ inflight' = inflight (+) SetToBag({"get_places"})
          ELSE UNCHANGED inflight
       /\ UNCHANGED facade

GetStats == \E pet_id \in PetIds :
    LET r == get_stats(_config, _token, pet_id, NoResponse)
    IN /\ call' = [op |-> "get_stats", args |-> [pet_id |-> pet_id], resp |-> NoResponse,
                   requests |-> r.requests, outcome |-> r.outcome]
       /\ IF r.outcome.kind = "await"
          THEN /\ CanSuspend
               /\ inflight' = inflight (+) SetToBag({"get_stats"})
          ELSE UNCHANGED inflight
       /\ UNCHANGED facade

GetTimeline == \E pet_id \in PetIds :
    LET r == get_timeline(_config, _token, pet_id, NoResponse)
    IN /\ call' = [op |-> "get_timeline", args |-> [pet_id |-> pet_id], resp |-> NoResponse,
                   requests |-> r.requests, outcome |-> r.outcome]
       /\ IF r.outcome.kind = "await"
          THEN /\ CanSuspend
               /\ inflight' = inflight (+) SetToBag({"get_timeline"})
          ELSE UNCHANGED inflight
       /\ UNCHANGED facade

GetDailies == \E pet_id \in PetIds, start_date \in StartDates,
                 end_date \in EndDates, now \in NowReadings :
    LET r == get_dailies(_config, _token, pet_id, start_date, end_date, now,
                         utcoffset, NoResponse)
    IN /\ call' = [op |-> "get_dailies",
                   args |-> [pet_id |-> pet_id, start_date |-> start_date,
                             end_date |-> end_date, now |-> now],
                   resp |-> NoResponse, requests |-> r.requests, outcome |-> r.outcome]
       /\ IF r.outcome.kind = "await"
          THEN /\ CanSuspend
               /\ inflight' = inflight (+) SetToBag({"get_dailies"})
          ELSE UNCHANGED inflight
       /\ UNCHANGED facade

GetDailiesDay == \E pet_id \in PetIds, day_id \in DayIds :
    LET r == get_dailies_day(_config, _token, pet_id, day_id, NoResponse)
    IN /\ call' = [op |-> "get_dailies_day",
                   args |-> [pet_id |-> pet_id, day_id |-> day_id],
                   resp |-> NoResponse, requests |-> r.requests, outcome |-> r.outcome]
       /\ IF r.outcome.kind = "await"
          THEN /\ CanSuspend
               /\ inflight' = inflight (+) SetToBag({"get_dailies_day"})
          ELSE UNCHANGED inflight
       /\ UNCHANGED facade

GetAchievements == \E pet_id \in PetIds :
    LET r == get_achievements(_config, _token, pet_id, NoResponse)
    IN /\ call' = [op |-> "get_achievements", args |-> [pet_id |-> pet_id],
                   resp |-> NoResponse, requests |-> r.requests, outcome |-> r.outcome]
       /\ IF r.outcome.kind = "await"
          THEN /\ CanSuspend
               /\ inflight' = inflight (+) SetToBag({"get_achievements"})
          ELSE UNCHANGED inflight
       /\ UNCHANGED facade

\* a caller using the generic request primitive with a parameter mapping
Request == \E config \in Configs, params \in ParamMaps :
    LET r == request(config, "get", <<"pets">>, None, None, params, NoResponse)
    IN /\ call' = [op |-> "request", args |-> [config |-> config, params |-> params],
                   resp |-> NoResponse, requests |-> r.requests, outcome |-> r.outcome]
       /\ IF r.outcome.kind = "await"
          THEN /\ CanSuspend
               /\ inflight' = inflight (+) SetToBag({"request"})
          ELSE UNCHANGED inflight
       /\ UNCHANGED facade

\* a suspended call resumed by the answer to its request (lines 63-64); every
\* method hands the result of request to its caller as it is
Resume == \E op \in BagToSet(inflight), resp \in Responses :
    /\ call' = [op |-> op, args |-> NoArgs, resp |-> resp,
                requests |-> <<>>,
                outcome |-> response(resp)]
    /\ inflight' = inflight (-) SetToBag({op})
    /\ UNCHANGED facade

\* the token of a login response, for a response that has one
HasAuthToken(resp) ==
    /\ resp.kind = "http"
    /\ resp.body.t = "dict"
    /\ "auth_token" \in DOMAIN resp.body.v

\* async_init up to its suspension at "await self.login(...)": the config is
\* stored, the token is tested and the login request is on the wire; with a
\* token cached the call returns at once
AsyncInitBegin == \E whistle_const \in Configs :
    LET sent == login(whistle_const, _username, _password, NoResponse).requests
    IN /\ _config' = whistle_const
       /\ IF async_init_check(_token)
          THEN /\ CanSuspend
               /\ pending' = pending (+) SetToBag({whistle_const})
               /\ overlapped' = (overlapped \/ pending # EmptyBag)
               /\ call' = [op |-> "async_init_begin",
                           args |-> [whistle_const |-> whistle_const],
                           resp |-> NoResponse, requests |-> sent,
                           outcome |-> Awaiting]
               /\ UNCHANGED initOk
          ELSE /\ initOk' = TRUE
               /\ call' = [op |-> "async_init",
                           args |-> [whistle_const |-> whistle_const],
                           resp |-> NoResponse, requests |-> <<>>,
                           outcome |-> Return(None)]
               /\ UNCHANGED <<pending, overlapped>>
       /\ UNCHANGED <<_token, _username, _password, utcoffset, inflight, completed, settled>>

\* async_init resumed by the response to its login request: the token is
\* stored if login returns one, and no request is made
AsyncInitEnd == \E whistle_const \in Configs, resp \in LoginResponses :
    /\ BagIn(whistle_const, pending)
    /\ LET r == login(whistle_const, _username, _password, resp)
           loggedIn == r.outcome.kind = "return" /\ HasAuthToken(resp)
           rest == pending (-) SetToBag({whistle_const})
       IN /\ _token' = async_init_store(_token, r)
          /\ call' = [op |-> "async_init",
                      args |-> [whistle_const |-> whistle_const], resp |-> resp,
                      requests |-> r.requests,
                      outcome |-> IF r.outcome.kind = "return" THEN Return(None)
                                  ELSE r.outcome]
          /\ initOk' = (initOk \/ r.outcome.kind = "return")
          /\ completed' = IF loggedIn THEN Append(completed, resp.body.v["auth_token"])
                          ELSE completed
          /\ settled' = IF loggedIn /\ rest = EmptyBag
                        THEN settled \cup {resp.body.v["auth_token"]}
                        ELSE settled
          /\ pending' = rest
    /\ UNCHANGED <<_config, _username, _password, utcoffset, inflight, overlapped>>

ResourceCall ==
    \/ GetPets
    \/ GetOwners
    \/ GetPlaces
    \/ GetStats
    \/ GetTimeline
    \/ GetDailies
    \/ GetDailiesDay
    \/ GetAchievements

\* calls in any interleaving, each in its two steps: up to its await, and
\* from the answer on
Next ==
    \/ AsyncInitBegin
    \/ AsyncInitEnd
    \/ ResourceCall
    \/ Resume

Spec == Init /\ [][Next]_vars

\* the generic request primitive on its own, over every parameter mapping, in
\* its two steps
SpecRequest == Init /\ [][Request \/ Resume]_vars

\* ================================================================ claims

\* a login response that does not yield a token: transport error, HTTP error
\* status, a body that is not JSON, or JSON without an auth_token field
LoginFails(resp) ==
    \/ resp.kind = "transport_error"
    \/ resp.status >= 400
    \/ resp.body.t = "notjson"
    \/ ~HasAuthToken(resp)

\* a response that makes the request fail
RequestFails(resp) ==
    \/ resp.kind = "transport_error"
    \/ resp.status >= 400
    \/ resp.body.t = "notjson"

\* C1: a resource method called before any async_init has completed
\* successfully fails and puts no request on the network session
C1_NotInitialized ==
    (~initOk /\ call.op \in ResourceOps /\ call.resp.kind = "none")
        => (call.outcome.kind = "raise" /\ call.requests = <<>>)

\* C2 as stated: once async_init has completed with login response
\* {"auth_token": T}, every resource call issues its request with
\* Authorization "Bearer T"
C2_LoginRoundTrip ==
    \A n \in 1..Len(completed) :
        (call.op \in ResourceOps /\ call.resp.kind = "none") =>
            /\ call.requests # <<>>
            /\ \A i \in 1..Len(call.requests) :
                   call.requests[i].headers.Authorization = <<"Bearer ">> \o completed[n].v

\* C2 amended: once async_init has completed with login response
\* {"auth_token": T} while no other async_init was suspended at its login,
\* every resource call issues its request with Authorization "Bearer T"
C2_LoginRoundTripSettled ==
    \A T \in settled :
        (call.op \in ResourceOps /\ call.resp.kind = "none") =>
            /\ call.requests # <<>>
            /\ \A i \in 1..Len(call.requests) :
                   call.requests[i].headers.Authorization = <<"Bearer ">> \o T.v

C2_Witness ==
    /\ settled # {}
    /\ overlapped
    /\ Len(completed) = 1
    /\ call.op \in ResourceOps
    /\ Len(call.requests) = 1
    /\ call.outcome.kind = "await"
    /\ inflight # EmptyBag

\* C3: in non-overlapping calls, once the token is set no later async_init
\* issues a login request, the token never changes, and at most one login
\* ever succeeds
C3_LoginOnce ==
    [][~overlapped' =>
           /\ Len(completed') <= 1
           /\ (_token # None) =>
                  /\ _token' = _token
                  /\ (call'.op \in {"async_init", "async_init_begin"}
                          => call'.requests = <<>>)]_vars

C3_Witness ==
    /\ ~overlapped
    /\ _token # None
    /\ Len(completed) = 1
    /\ call.op = "async_init"
    /\ call.resp.kind = "none"
    /\ call.requests = <<>>
    /\ call.outcome.kind = "return"

\* C4: once an async_init has stored the config, no later operation changes it
C4_ConfigSetOnce ==
    [][(_config # None) => (_config' = _config)]_vars

\* C5: the parameters sent by request are exactly the entries of the mapping
\* passed in whose value is not None, keys and values unchanged
C5_ParamFilter ==
    (call.op = "request" /\ call.resp.kind = "none") =>
        /\ Len(call.requests) = 1
        /\ LET given == call.args.params
               sent == call.requests[1].params
           IN /\ DOMAIN sent = (IF given = None THEN {}
                                ELSE {k \in DOMAIN given : given[k] # None})
              /\ \A k \in DOMAIN sent : sent[k] = given[k]

C5_Witness ==
    /\ call.op = "request"
    /\ call.resp.kind = "none"
    /\ call.args.params # None
    /\ DOMAIN call.args.params = {"a", "b"}
    /\ call.args.params["a"] = None
    /\ call.args.params["b"] = PyInt(0)
    /\ DOMAIN call.requests[1].params = {"b"}

\* C6: get_dailies sends start_date and end_date as given, the current date
\* for an absent end_date, 1970-01-01 for an absent start_date, nothing when
\* both are absent, and every date sent is a YYYY-MM-DD string
EpochDate == PyStr(<<"1", "9", "7", "0", "-", "0", "1", "-", "0", "1">>)

IsYYYYMMDD(x) ==
    /\ x.t = "str"
    /\ Len(x.v) = 10
    /\ \A i \in {1, 2, 3, 4, 6, 7, 9, 10} : \E d \in 1..10 : x.v[i] = DigitChars[d]
    /\ x.v[5] = "-"
    /\ x.v[8] = "-"

C6_DateDefaulting ==
    (call.op = "get_dailies" /\ call.requests # <<>>) =>
        LET a == call.args
            sent == call.requests[1].params
            start == IF a.start_date # None THEN strftime(a.start_date)
                     ELSE IF a.end_date # None THEN EpochDate
                     ELSE None
            end == IF a.end_date # None THEN strftime(a.end_date)
                   ELSE IF a.start_date # None THEN strftime(a.now)
                   ELSE None
        IN /\ ("start_date" \in DOMAIN sent) = (start # None)
           /\ ("end_date" \in DOMAIN sent) = (end # None)
           /\ start # None => sent["start_date"] = start
           /\ end # None => sent["end_date"] = end
           /\ \A k \in DOMAIN sent : IsYYYYMMDD(sent[k])

\* C7 as stated: every non-2xx response makes the call fail with an HTTP error
\* carrying the status, and a value is returned only for a 2xx response
C7_Non2xxFails ==
    call.resp.kind = "http" =>
        /\ (call.resp.status \notin 200..299) =>
               /\ call.outcome.kind = "raise"
               /\ call.outcome.error = "ClientResponseError"
               /\ call.outcome.status = call.resp.status
        /\ (call.outcome.kind = "return") => (call.resp.status \in 200..299)

\* C7 amended: a response with a client or server error status (400 or above)
\* makes the call fail with an HTTP error carrying the status, and a value is
\* returned only for a response whose status is below 400
C7_ErrorStatusFails ==
    call.resp.kind = "http" =>
        /\ (call.resp.status >= 400) =>
               /\ call.outcome.kind = "raise"
               /\ call.outcome.error = "ClientResponseError"
               /\ call.outcome.status = call.resp.status
        /\ (call.outcome.kind = "return") => (call.resp.status < 400)

C7_Witness ==
    /\ call.op \in ResourceOps
    /\ call.resp.kind = "http"
    /\ call.resp.status = 404
    /\ call.outcome.kind = "raise"
    /\ call.outcome.status = 404

\* C8 as stated: an async_init whose login fails raises and leaves the token
\* unset, and an async_init called while the token is unset issues a login
\* request
C8_FailedLoginNoToken ==
    [][/\ (call'.op = "async_init" /\ call'.resp.kind # "none" /\ LoginFails(call'.resp))
              => (call'.outcome.kind = "raise" /\ _token' = None)
       /\ (_token = None /\ call'.op \in {"async_init", "async_init_begin"}
              /\ call'.resp.kind = "none")
              => call'.requests # <<>>]_vars

\* C8 amended: an async_init whose login fails raises and leaves the token as
\* it was, which is unset unless async_init calls have overlapped, and an
\* async_init called while the token is unset issues a login request
C8_FailedLoginKeepsToken ==
    [][/\ (call'.op = "async_init" /\ call'.resp.kind # "none" /\ LoginFails(call'.resp))
              => /\ call'.outcome.kind = "raise"
                 /\ _token' = _token
                 /\ ~overlapped' => _token' = None
       /\ (_token = None /\ call'.op \in {"async_init", "async_init_begin"}
              /\ call'.resp.kind = "none")
              => call'.requests # <<>>]_vars

C8_Witness ==
    /\ call.op = "async_init"
    /\ call.resp.kind = "http"
    /\ call.resp.status = 200
    /\ ~HasAuthToken(call.resp)
    /\ call.outcome.kind = "raise"
    /\ overlapped
    /\ _token # None

\* C9: an endpoint method called on an initialized facade issues exactly one
\* request, a GET to its fixed resource path, when it is called and none when
\* it is answered, and a failed request is delivered to the caller as the
\* failure of that call
ResourcePath(op, args) ==
    IF op = "get_pets" THEN <<"pets">>
    ELSE IF op = "get_places" THEN <<"places">>
    ELSE IF op = "get_owners" THEN <<"pets/">> \o IntChunks(args.pet_id.v) \o <<"/owners">>
    ELSE IF op = "get_stats" THEN <<"pets/">> \o IntChunks(args.pet_id.v) \o <<"/stats">>
    ELSE IF op = "get_timeline"
         THEN <<"pets/">> \o IntChunks(args.pet_id.v) \o <<"/timelines/location">>
    ELSE IF op = "get_dailies" THEN <<"pets/">> \o IntChunks(args.pet_id.v) \o <<"/dailies">>
    ELSE IF op = "get_dailies_day"
         THEN <<"pets/">> \o IntChunks(args.pet_id.v) \o <<"/dailies/">>
              \o IntChunks(args.day_id.v)
    ELSE <<"pets/">> \o IntChunks(args.pet_id.v) \o <<"/achievements">>

C9_OneRequestPerCall ==
    /\ (initOk /\ call.op \in ResourceOps /\ call.resp.kind = "none") =>
           /\ Len(call.requests) = 1
           /\ call.requests[1].method = "get"
           /\ call.requests[1].url =
                  <<_config.proto, "://", _config.remote_host, "/", _config.endpoint, "/">>
                  \o ResourcePath(call.op, call.args)
           /\ call.outcome = Awaiting
    /\ (call.op \in ResourceOps /\ call.resp.kind # "none") =>
           /\ call.requests = <<>>
           /\ RequestFails(call.resp) => call.outcome.kind = "raise"
           /\ ~RequestFails(call.resp) => call.outcome = Return(call.resp.body)

C9_Witness ==
    /\ initOk
    /\ call.op = "get_owners"
    /\ call.requests = <<>>
    /\ call.resp.kind = "transport_error"
    /\ call.outcome.kind = "raise"

\* C10: overlapping async_init calls on a facade without a token each log in,
\* and the token stored is the one of the login that completed last
C10_LastLoginWins ==
    completed # <<>> => _token = completed[Len(completed)]

C10_Witness ==
    /\ Len(completed) = 2
    /\ completed[1] # completed[2]
    /\ _token = completed[2]
    /\ overlapped
    /\ Idle

====
